---- MODULE Spec2Model ----
(***************************************************************************)
(* A model of urn-rs: weighted trees (types.rs), the urn operations        *)
(* (urn.rs), the linear-time bulk constructor (almost_perfect.rs) and the  *)
(* well-formedness checks of quickcheck_tests.rs.                          *)
(*                                                                         *)
(* Trees are tagged records.  Weight and Index are u8: every sum and       *)
(* difference of weights is computed as the source computes it, either     *)
(* with wrapping_add / wrapping_sub or with the plain operators, whose     *)
(* overflow panics in a build with overflow checks and wraps otherwise.    *)
(***************************************************************************)
EXTENDS Integers, Sequences, FiniteSets, TLC

VARIABLES urn, hist, overflow_checks

vars == <<urn, hist, overflow_checks>>

(***************************************************************************)
(* Bounds of the model.                                                    *)
(***************************************************************************)
MaxSize == 3

MaxLen == 8

MaxIndex == 2

(***************************************************************************)
(* Weight = u8 (types.rs:6).                                               *)
(***************************************************************************)
WeightBits == 8

Modulus == 2 ^ WeightBits

WeightMax == Modulus - 1

\* The weighted elements the operations are driven with: an empty bucket,
\* two small weights and the largest weight, each with its own value.
Pairs == {<<0, "a">>, <<1, "b">>, <<2, "c">>, <<WeightMax, "d">>}

\* The elements the bulk constructor is driven with.
BuildPairs == {<<1, "b">>, <<2, "c">>, <<WeightMax, "d">>}

\* The indexes the operations are driven with: the low end and the high end
\* of the u8 range.
Indexes == {i \in 0..WeightMax : i <= MaxIndex \/ i >= WeightMax - MaxIndex}

(***************************************************************************)
(* types.rs                                                                *)
(***************************************************************************)
Leaf(w, a) == [tag |-> "Leaf", w |-> w, a |-> a]

Node(w, l, r) == [tag |-> "Node", w |-> w, l |-> l, r |-> r]

None == [tag |-> "None"]

\* A panic: the operation aborts and returns nothing.
PanicOverflow == [tag |-> "Panic", why |-> "arithmetic overflow"]

PanicExhausted == [tag |-> "Panic", why |-> "input exhausted"]

IsPanic(x) == x.tag = "Panic"

IsNone(x) == x.tag = "None"

Urn(size, tree) == [tag |-> "Urn", size |-> size, tree |-> tree]

IsUrn(u) == u.tag = "Urn"

wrapping_add(x, y) == (x + y) % Modulus

\* A subtraction that stops at 0 instead of wrapping.
wrapping_sub_saturating(x, y) == IF x < y THEN 0 ELSE x - y

wrapping_sub(x, y) == (x - y + Modulus) % Modulus

\* The plain `+` and `-` of u8: on overflow a build with overflow checks
\* panics, a build without them wraps.
plain_add(x, y, checks) ==
    IF x + y > WeightMax /\ checks THEN PanicOverflow ELSE [tag |-> "Ok", v |-> wrapping_add(x, y)]

plain_sub(x, y, checks) ==
    IF x < y /\ checks THEN PanicOverflow ELSE [tag |-> "Ok", v |-> wrapping_sub(x, y)]

weight(t) == t.w

\* A descent that also goes left when i equals the left weight.
RECURSIVE sample_index_inclusive(_, _)
sample_index_inclusive(t, i) ==
    IF t.tag = "Leaf" THEN t.a
    ELSE LET wl == weight(t.l)
         IN IF i <= wl THEN sample_index_inclusive(t.l, i)
            ELSE sample_index_inclusive(t.r, i - wl)

RECURSIVE sample_index(_, _)
sample_index(t, i) ==
    IF t.tag = "Leaf" THEN t.a
    ELSE LET wl == weight(t.l)
         IN IF i < wl THEN sample_index(t.l, i)
            ELSE sample_index(t.r, i - wl)

\* A replacement that leaves the ancestors' weights as they were.
RECURSIVE replace_index_stale_weight(_, _, _, _)
replace_index_stale_weight(t, w_outer, a_outer, i) ==
    IF t.tag = "Leaf"
    THEN [old |-> <<t.w, t.a>>, tree |-> Leaf(w_outer, a_outer)]
    ELSE LET wl == weight(t.l)
         IN IF i < wl
            THEN LET res == replace_index_stale_weight(t.l, w_outer, a_outer, i)
                 IN [old |-> res.old, tree |-> Node(t.w, res.tree, t.r)]
            ELSE LET res == replace_index_stale_weight(t.r, w_outer, a_outer, i - wl)
                 IN [old |-> res.old, tree |-> Node(t.w, t.l, res.tree)]

RECURSIVE replace_index(_, _, _, _)
replace_index(t, w_outer, a_outer, i) ==
    IF t.tag = "Leaf"
    THEN [old |-> <<t.w, t.a>>, tree |-> Leaf(w_outer, a_outer)]
    ELSE LET wl == weight(t.l)
         IN IF i < wl
            THEN LET res == replace_index(t.l, w_outer, a_outer, i)
                 IN [old |-> res.old,
                     tree |-> Node(wrapping_add(wrapping_sub(t.w, res.old[1]), w_outer),
                                   res.tree, t.r)]
            ELSE LET res == replace_index(t.r, w_outer, a_outer, i - wl)
                 IN [old |-> res.old,
                     tree |-> Node(wrapping_add(wrapping_sub(t.w, res.old[1]), w_outer),
                                   t.l, res.tree)]

\* The closures handed to update_index, F: FnOnce(Weight, &T) -> (Weight, &T):
\* the identity and the constant closures of the lightest and the heaviest
\* element.
UpdateFns ==
    {[kind |-> "id"]}
        \cup {[kind |-> "const", p |-> p] : p \in {q \in Pairs : q[1] \in {0, WeightMax}}}

apply_f(f, w, a) == IF f.kind = "id" THEN <<w, a>> ELSE f.p

\* `w - old.0 + new.0`, evaluated left to right with the plain operators.
update_weight(w, old, new, checks) ==
    LET d == plain_sub(w, old[1], checks)
    IN IF IsPanic(d) THEN d ELSE plain_add(d.v, new[1], checks)

RECURSIVE update_index(_, _, _, _)
update_index(t, f, i, checks) ==
    IF t.tag = "Leaf"
    THEN LET new == apply_f(f, t.w, t.a)
         IN [tag |-> "Ok", old |-> <<t.w, t.a>>, new |-> new, tree |-> Leaf(new[1], new[2])]
    ELSE LET wl == weight(t.l)
         IN IF i < wl
            THEN LET res == update_index(t.l, f, i, checks)
                 IN IF IsPanic(res) THEN res
                    ELSE LET nw == update_weight(t.w, res.old, res.new, checks)
                         IN IF IsPanic(nw) THEN nw
                            ELSE [res EXCEPT !.tree = Node(nw.v, res.tree, t.r)]
            ELSE LET res == update_index(t.r, f, i - wl, checks)
                 IN IF IsPanic(res) THEN res
                    ELSE LET nw == update_weight(t.w, res.old, res.new, checks)
                         IN IF IsPanic(nw) THEN nw
                            ELSE [res EXCEPT !.tree = Node(nw.v, t.l, res.tree)]

(***************************************************************************)
(* urn.rs                                                                  *)
(***************************************************************************)
test_bit(input, n) == (input \div (2 ^ n)) % 2 # 0

\* rng.gen_range(0..=w): any value of the closed range can be drawn.
sample_weight(w) == 0..w

singleton(w, a) == Urn(1, Leaf(w, a))

\* An insert that ignores the path and always grows the leftmost leaf.
RECURSIVE insert_go_leftmost(_, _, _, _)
insert_go_leftmost(w_outer, a_outer, path, tree) ==
    IF tree.tag = "Leaf"
    THEN Node(wrapping_add(tree.w, w_outer), Leaf(tree.w, tree.a), Leaf(w_outer, a_outer))
    ELSE Node(wrapping_add(tree.w, w_outer),
              insert_go_leftmost(w_outer, a_outer, path \div 2, tree.l), tree.r)

RECURSIVE insert_go(_, _, _, _)
insert_go(w_outer, a_outer, path, tree) ==
    IF tree.tag = "Leaf"
    THEN Node(wrapping_add(tree.w, w_outer), Leaf(tree.w, tree.a), Leaf(w_outer, a_outer))
    ELSE LET new_path == path \div 2
         IN IF test_bit(path, 0)
            THEN Node(wrapping_add(tree.w, w_outer), tree.l,
                      insert_go(w_outer, a_outer, new_path, tree.r))
            ELSE Node(wrapping_add(tree.w, w_outer),
                      insert_go(w_outer, a_outer, new_path, tree.l), tree.r)

\* An insert that forgets to count the new element.
insert_keeping_size(u, w_outer, a_outer) ==
    Urn(u.size, insert_go(w_outer, a_outer, u.size, u.tree))

insert(u, w_outer, a_outer) ==
    Urn(u.size + 1, insert_go(w_outer, a_outer, u.size, u.tree))

\* An uninsert that leaves the weights of the ancestors as they were.
RECURSIVE uninsert_go_stale_weight(_, _)
uninsert_go_stale_weight(path, tree) ==
    IF tree.tag = "Leaf"
    THEN [pair |-> <<tree.w, tree.a>>, lb |-> 0, tree |-> None]
    ELSE LET new_path == path \div 2
         IN IF test_bit(path, 0)
            THEN LET res == uninsert_go_stale_weight(new_path, tree.r)
                     new_tree == IF IsNone(res.tree) THEN tree.l
                                 ELSE Node(tree.w, tree.l, res.tree)
                 IN [pair |-> res.pair, lb |-> res.lb, tree |-> new_tree]
            ELSE LET res == uninsert_go_stale_weight(new_path, tree.l)
                     new_tree == IF IsNone(res.tree) THEN tree.r
                                 ELSE Node(tree.w, res.tree, tree.r)
                 IN [pair |-> res.pair, lb |-> res.lb, tree |-> new_tree]

RECURSIVE uninsert_go(_, _)
uninsert_go(path, tree) ==
    IF tree.tag = "Leaf"
    THEN [pair |-> <<tree.w, tree.a>>, lb |-> 0, tree |-> None]
    ELSE LET new_path == path \div 2
         IN IF test_bit(path, 0)
            THEN LET res == uninsert_go(new_path, tree.r)
                     new_tree == IF IsNone(res.tree) THEN tree.l
                                 ELSE Node(wrapping_sub(tree.w, res.pair[1]), tree.l, res.tree)
                 IN [pair |-> res.pair, lb |-> res.lb, tree |-> new_tree]
            ELSE LET res == uninsert_go(new_path, tree.l)
                     new_tree == IF IsNone(res.tree) THEN tree.r
                                 ELSE Node(wrapping_sub(tree.w, res.pair[1]), res.tree, tree.r)
                 IN [pair |-> res.pair, lb |-> res.lb, tree |-> new_tree]

\* An uninsert that follows the path of size instead of size - 1.
uninsert_path_of_size(u) ==
    LET res == uninsert_go(u.size, u.tree)
    IN [pair |-> res.pair, lb |-> res.lb,
        urn |-> IF IsNone(res.tree) THEN None ELSE Urn(u.size - 1, res.tree)]

uninsert(u) ==
    LET res == uninsert_go(u.size - 1, u.tree)
    IN [pair |-> res.pair, lb |-> res.lb,
        urn |-> IF IsNone(res.tree) THEN None ELSE Urn(u.size - 1, res.tree)]

urn_replace_index(u, w, a, i) ==
    LET res == replace_index(u.tree, w, a, i)
    IN [old |-> res.old, urn |-> Urn(u.size, res.tree)]

urn_update_index(u, f, i, checks) ==
    LET res == update_index(u.tree, f, i, checks)
    IN IF IsPanic(res) THEN res
       ELSE [tag |-> "Ok", old |-> res.old, new |-> res.new, urn |-> Urn(u.size, res.tree)]

\* A removal that always reports the uninserted pair, also when it has
\* written that pair over another element.
remove_index_reporting_uninserted(u, i) ==
    LET un == uninsert(u)
        w == un.pair[1]
        a == un.pair[2]
    IN IF IsNone(un.urn) THEN [pair |-> <<w, a>>, urn |-> None]
       ELSE IF i < un.lb + w
            THEN [pair |-> <<w, a>>, urn |-> un.urn]
            ELSE [pair |-> <<w, a>>, urn |-> urn_replace_index(un.urn, w, a, i - w).urn]

\* `lb + w` and `i - w` are plain u8 operations; lb is 0 in every result of
\* uninsert and `i - w` is taken only when i >= lb + w, so neither overflows.
remove_index(u, i) ==
    LET un == uninsert(u)
        w == un.pair[1]
        a == un.pair[2]
    IN IF IsNone(un.urn) THEN [pair |-> <<w, a>>, urn |-> None]
       ELSE IF i < un.lb
            THEN LET res == urn_replace_index(un.urn, w, a, i)
                 IN [pair |-> res.old, urn |-> res.urn]
            ELSE IF i < un.lb + w
                 THEN [pair |-> <<w, a>>, urn |-> un.urn]
                 ELSE LET res == urn_replace_index(un.urn, w, a, i - w)
                      IN [pair |-> res.old, urn |-> res.urn]

RECURSIVE fold_insert(_, _)
fold_insert(acc, ws) ==
    IF ws = <<>> THEN acc
    ELSE fold_insert(insert(acc, Head(ws)[1], Head(ws)[2]), Tail(ws))

from_list_naive(elems) ==
    IF elems = <<>> THEN None
    ELSE fold_insert(singleton(Head(elems)[1], Head(elems)[2]), Tail(elems))

(***************************************************************************)
(* almost_perfect.rs                                                       *)
(***************************************************************************)
\* r, n and x are u32.  `r << 1` drops bit 31 of r; the accumulator holds at
\* most n bits, so for n < 32 nothing is dropped and `r << 1 | x & 1` is
\* 2 * r + (x mod 2).
\* A reversal that forgets to shift x and so copies its lowest bit n times.
RECURSIVE reverse_bits_go_no_shift(_, _, _)
reverse_bits_go_no_shift(r, n, x) ==
    IF n = 0 THEN r
    ELSE reverse_bits_go_no_shift((r * 2) + (x % 2), n - 1, x)

RECURSIVE reverse_bits_go(_, _, _)
reverse_bits_go(r, n, x) ==
    IF n = 0 THEN r
    ELSE reverse_bits_go((r * 2) + (x % 2), n - 1, x \div 2)

\* The low n bits of x without the reversal.
reverse_bits_unreversed(n, x) == x % (2 ^ n)

reverse_bits(n, x) == reverse_bits_go(0, n, x)

\* Smart constructor of almost_perfect.rs: `l.weight() + r.weight()` with the
\* plain `+`.
ap_node(l, r, checks) ==
    LET s == plain_add(weight(l), weight(r), checks)
    IN IF IsPanic(s) THEN s ELSE Node(s.v, l, r)

RECURSIVE ilog2(_)
ilog2(n) == IF n <= 1 THEN 0 ELSE 1 + ilog2(n \div 2)

RECURSIVE almost_perfect_go(_, _, _, _, _, _)
almost_perfect_go(depth, index, elems, perfect_depth, remainder, checks) ==
    IF depth = 0
    THEN IF reverse_bits(perfect_depth, index) < remainder
         THEN IF Len(elems) >= 2
              THEN LET t == ap_node(Leaf(elems[1][1], elems[1][2]),
                                    Leaf(elems[2][1], elems[2][2]), checks)
                   IN IF IsPanic(t) THEN t
                      ELSE [tag |-> "Ok", tree |-> t,
                            elems |-> SubSeq(elems, 3, Len(elems)), index |-> index + 1]
              ELSE PanicExhausted
         ELSE IF Len(elems) >= 1
              THEN [tag |-> "Ok", tree |-> Leaf(elems[1][1], elems[1][2]),
                    elems |-> Tail(elems), index |-> index + 1]
              ELSE PanicExhausted
    ELSE LET l == almost_perfect_go(depth - 1, index, elems, perfect_depth, remainder, checks)
         IN IF IsPanic(l) THEN l
            ELSE LET r == almost_perfect_go(depth - 1, l.index, l.elems,
                                            perfect_depth, remainder, checks)
                 IN IF IsPanic(r) THEN r
                    ELSE LET t == ap_node(l.tree, r.tree, checks)
                         IN IF IsPanic(t) THEN t
                            ELSE [tag |-> "Ok", tree |-> t, elems |-> r.elems, index |-> r.index]

\* remainder = original_size - (perfect_depth << 1); the difference is never
\* negative, since original_size >= 2^perfect_depth >= 2 * perfect_depth.
ap_remainder(original_size, perfect_depth) == original_size - (perfect_depth * 2)

almost_perfect(elems, checks) ==
    LET original_size == Len(elems)
        perfect_depth == ilog2(original_size)
        remainder == ap_remainder(original_size, perfect_depth)
        res == almost_perfect_go(perfect_depth, 0, elems, perfect_depth, remainder, checks)
    IN IF IsPanic(res) THEN res ELSE res.tree

from_list(elems, checks) ==
    IF elems = <<>> THEN None
    ELSE LET t == almost_perfect(elems, checks)
         IN IF IsPanic(t) THEN t ELSE Urn(Len(elems), t)

(***************************************************************************)
(* quickcheck_tests.rs: the well-formedness checks                         *)
(***************************************************************************)
\* The count is a u32 added with wrapping_add; it stays far below 2^32.
RECURSIVE tree_count(_)
tree_count(t) ==
    IF t.tag = "Leaf" THEN 1 ELSE tree_count(t.l) + tree_count(t.r)

RECURSIVE sum_leaf_weights(_)
sum_leaf_weights(t) ==
    IF t.tag = "Leaf" THEN t.w
    ELSE wrapping_add(sum_leaf_weights(t.l), sum_leaf_weights(t.r))

RECURSIVE weights_match(_)
weights_match(t) ==
    IF t.tag = "Leaf" THEN TRUE
    ELSE /\ t.w = wrapping_add(sum_leaf_weights(t.l), sum_leaf_weights(t.r))
         /\ weights_match(t.l)
         /\ weights_match(t.r)

is_wf(u) == tree_count(u.tree) = u.size /\ weights_match(u.tree)

(***************************************************************************)
(* The state machine.  `urn` is the urn the program holds (None before a   *)
(* constructor ran and after the last element was removed), `hist` is the  *)
(* last call: its name, the urn it was applied to, its arguments and what  *)
(* it returned, and `overflow_checks` is the build's overflow-checks       *)
(* setting (on in a debug build, off in a release build).                  *)
(***************************************************************************)
Call(op, pre, arg, ret) == [op |-> op, pre |-> pre, arg |-> arg, ret |-> ret]

NoArg == [none |-> TRUE]

\* Input lists of at most n pairs.
RECURSIVE ListsUpTo(_, _)
ListsUpTo(S, n) ==
    IF n = 0 THEN {<<>>}
    ELSE LET shorter == ListsUpTo(S, n - 1)
         IN shorter \cup {Append(l, p) : l \in {x \in shorter : Len(x) = n - 1}, p \in S}

Init ==
    /\ urn = None
    /\ hist = Call("init", None, NoArg, None)
    /\ overflow_checks \in BOOLEAN

Singleton(w, a) ==
    /\ IsNone(urn)
    /\ urn' = singleton(w, a)
    /\ hist' = Call("singleton", urn, [w |-> w, a |-> a], urn')
    /\ UNCHANGED overflow_checks

\* A panicking constructor leaves the program without an urn.
FromList(elems) ==
    /\ IsNone(urn)
    /\ LET res == from_list(elems, overflow_checks)
       IN /\ urn' = IF IsUrn(res) THEN res ELSE None
          /\ hist' = Call("from_list", urn, [elems |-> elems], res)
    /\ UNCHANGED overflow_checks

FromListNaive(elems) ==
    /\ IsNone(urn)
    /\ LET res == from_list_naive(elems)
       IN /\ urn' = res
          /\ hist' = Call("from_list_naive", urn, [elems |-> elems], res)
    /\ UNCHANGED overflow_checks

InsertBelow(cap, w, a) ==
    /\ IsUrn(urn)
    /\ urn.size < cap
    /\ urn' = insert(urn, w, a)
    /\ hist' = Call("insert", urn, [w |-> w, a |-> a], urn')
    /\ UNCHANGED overflow_checks

Insert(w, a) == InsertBelow(MaxSize, w, a)

Uninsert ==
    /\ IsUrn(urn)
    /\ LET res == uninsert(urn)
       IN /\ urn' = res.urn
          /\ hist' = Call("uninsert", urn, NoArg, res)
    /\ UNCHANGED overflow_checks

DoSample(op, i) ==
    /\ urn' = urn
    /\ hist' = Call(op, urn, [i |-> i], [value |-> sample_index(urn.tree, i)])
    /\ UNCHANGED overflow_checks

\* A panicking update leaves the borrowed urn as it was.
DoUpdate(op, f, i) ==
    /\ LET res == urn_update_index(urn, f, i, overflow_checks)
       IN /\ urn' = IF IsPanic(res) THEN urn ELSE res.urn
          /\ hist' = Call(op, urn, [f |-> f, i |-> i], res)
    /\ UNCHANGED overflow_checks

DoReplace(op, w, a, i) ==
    /\ LET res == urn_replace_index(urn, w, a, i)
       IN /\ urn' = res.urn
          /\ hist' = Call(op, urn, [w |-> w, a |-> a, i |-> i], res)
    /\ UNCHANGED overflow_checks

DoRemove(op, i) ==
    /\ LET res == remove_index(urn, i)
       IN /\ urn' = res.urn
          /\ hist' = Call(op, urn, [i |-> i], res)
    /\ UNCHANGED overflow_checks

SampleIndex(i) == IsUrn(urn) /\ DoSample("sample_index", i)

UpdateIndex(f, i) == IsUrn(urn) /\ DoUpdate("update_index", f, i)

ReplaceIndex(w, a, i) == IsUrn(urn) /\ DoReplace("replace_index", w, a, i)

RemoveIndex(i) == IsUrn(urn) /\ DoRemove("remove_index", i)

\* The randomized wrappers: one draw of sample_weight over the whole weight
\* of the urn, then the index-based operation.
Sample ==
    IsUrn(urn) /\ \E i \in sample_weight(weight(urn.tree)) : DoSample("sample", i)

Update(f) ==
    IsUrn(urn) /\ \E i \in sample_weight(weight(urn.tree)) : DoUpdate("update", f, i)

Replace(w, a) ==
    IsUrn(urn) /\ \E i \in sample_weight(weight(urn.tree)) : DoReplace("replace", w, a, i)

Remove ==
    IsUrn(urn) /\ \E i \in sample_weight(weight(urn.tree)) : DoRemove("remove", i)

\* The constructors and the index-based operations, driven with elements of
\* every weight and with indexes at both ends of the u8 range.
Next ==
    \/ \E p \in Pairs : Singleton(p[1], p[2])
    \/ \E elems \in ListsUpTo(Pairs, MaxSize) : FromList(elems)
    \/ \E elems \in ListsUpTo(Pairs, MaxSize) : FromListNaive(elems)
    \/ \E p \in Pairs : Insert(p[1], p[2])
    \/ Uninsert
    \/ \E i \in Indexes : SampleIndex(i)
    \/ \E f \in UpdateFns, i \in Indexes : UpdateIndex(f, i)
    \/ \E p \in Pairs, i \in Indexes : ReplaceIndex(p[1], p[2], i)
    \/ \E i \in Indexes : RemoveIndex(i)

Spec == Init /\ [][Next]_vars

(***************************************************************************)
(* The randomized wrappers next to the operations they wrap.  A wrapper    *)
(* draws from every index up to the weight of the urn, so the elements     *)
(* here are light ones: the weight of an urn stays below MaxSize * 2 + 1   *)
(* and every draw is taken.                                                *)
(***************************************************************************)
RandPairs == {<<0, "a">>, <<1, "b">>, <<2, "c">>}

RandFns == {[kind |-> "id"]} \cup {[kind |-> "const", p |-> p] : p \in RandPairs}

NextRandom ==
    \/ \E p \in RandPairs : Singleton(p[1], p[2])
    \/ \E elems \in ListsUpTo(RandPairs, MaxSize) : FromList(elems)
    \/ \E elems \in ListsUpTo(RandPairs, MaxSize) : FromListNaive(elems)
    \/ \E p \in RandPairs : Insert(p[1], p[2])
    \/ Uninsert
    \/ \E i \in Indexes : SampleIndex(i)
    \/ \E f \in RandFns, i \in Indexes : UpdateIndex(f, i)
    \/ \E p \in RandPairs, i \in Indexes : ReplaceIndex(p[1], p[2], i)
    \/ \E i \in Indexes : RemoveIndex(i)
    \/ Sample
    \/ \E f \in RandFns : Update(f)
    \/ \E p \in RandPairs : Replace(p[1], p[2])
    \/ Remove

SpecRandom == Init /\ [][NextRandom]_vars

(***************************************************************************)
(* The bulk constructors as functions of their input: Init draws the input *)
(* list, the actions apply from_list and from_list_naive to it.            *)
(***************************************************************************)
\* The inputs of the unit tests from_list_equiv_small and from_list_equiv_big.
EquivSmall == <<<<2, "R">>, <<4, "G">>, <<3, "B">>>>

EquivBig == <<<<1, "a">>, <<2, "b">>, <<3, "c">>, <<4, "d">>,
              <<5, "e">>, <<6, "f">>, <<7, "g">>, <<8, "h">>>>

InitBuild ==
    /\ urn = None
    /\ \E elems \in ListsUpTo(BuildPairs, MaxLen) \cup {EquivSmall, EquivBig} :
          hist = Call("input", None, [elems |-> elems], None)
    /\ overflow_checks \in BOOLEAN

BuildFromList == hist.op = "input" /\ FromList(hist.arg.elems)

BuildFromListNaive == hist.op = "input" /\ FromListNaive(hist.arg.elems)

NextBuild == BuildFromList \/ BuildFromListNaive

SpecBuild == InitBuild /\ [][NextBuild]_vars

(***************************************************************************)
(* The operations as functions of an arbitrary well-formed urn: Init draws *)
(* any tree shape with leaves of any weight, node weights being the        *)
(* wrapped sums and size the number of leaves (the fields of Tree and Urn  *)
(* are public, so a caller can build any of them).                         *)
(***************************************************************************)
RECURSIVE TreesOf(_)
TreesOf(n) ==
    IF n = 1 THEN {Leaf(p[1], p[2]) : p \in Pairs}
    ELSE UNION {{Node(wrapping_add(weight(l), weight(r)), l, r) :
                    l \in TreesOf(k), r \in TreesOf(n - k)} : k \in 1..(n - 1)}

WFUrns == UNION {{Urn(n, t) : t \in TreesOf(n)} : n \in 1..MaxSize}

InitWF ==
    /\ urn \in WFUrns
    /\ hist = Call("init", None, NoArg, None)
    /\ overflow_checks \in BOOLEAN

InsertWF(w, a) == InsertBelow(MaxSize + 1, w, a)

NextWF ==
    \/ \E p \in Pairs : InsertWF(p[1], p[2])
    \/ Uninsert
    \/ \E i \in Indexes : SampleIndex(i)

SpecWF == InitWF /\ [][NextWF]_vars

(***************************************************************************)
(* Growth: urns of up to MaxGrow elements over two weighted elements, to   *)
(* follow the shape of the tree through every size a three-level tree      *)
(* passes through.                                                         *)
(***************************************************************************)
MaxGrow == 7

GrowPairs == {<<1, "b">>, <<2, "c">>}

GrowIndexes == 0..MaxIndex

GrowFns == {[kind |-> "id"]} \cup {[kind |-> "const", p |-> p] : p \in GrowPairs}

NextGrow ==
    \/ \E p \in GrowPairs : Singleton(p[1], p[2])
    \/ \E elems \in ListsUpTo(GrowPairs, MaxGrow) : FromList(elems)
    \/ \E p \in GrowPairs : InsertBelow(MaxGrow, p[1], p[2])
    \/ Uninsert
    \/ \E i \in GrowIndexes : RemoveIndex(i)
    \/ \E p \in GrowPairs, i \in GrowIndexes : ReplaceIndex(p[1], p[2], i)
    \/ \E f \in GrowFns, i \in GrowIndexes : UpdateIndex(f, i)

SpecGrow == Init /\ [][NextGrow]_vars

(***************************************************************************)
(* Insert sequences undone by uninsert: Init draws an urn that a           *)
(* constructor has built, a run of inserts follows, then a run of          *)
(* uninserts, one for each insert still pending.  The history records the  *)
(* pairs inserted and not yet uninserted at the time of each call.         *)
(***************************************************************************)
MaxBase == 3

MaxPending == 3

LifoPairs == {<<1, "b">>, <<2, "c">>, <<WeightMax, "d">>}

BaseLists == ListsUpTo(LifoPairs, MaxBase) \ {<<>>}

BaseUrns ==
    {singleton(p[1], p[2]) : p \in LifoPairs}
        \cup {from_list_naive(elems) : elems \in BaseLists}
        \cup {u \in {from_list(elems, c) : elems \in BaseLists, c \in BOOLEAN} : IsUrn(u)}

InitLifo ==
    /\ urn \in BaseUrns
    /\ hist = Call("construct", None, [pending |-> <<>>, base |-> urn], urn)
    /\ overflow_checks \in BOOLEAN

\* The pairs inserted and not yet uninserted, after the last call.
PendingInserts ==
    IF hist.op = "insert" THEN Append(hist.arg.pending, <<hist.arg.w, hist.arg.a>>)
    ELSE IF hist.op = "uninsert" THEN SubSeq(hist.arg.pending, 1, Len(hist.arg.pending) - 1)
    ELSE hist.arg.pending

LifoInsert(w, a) ==
    /\ hist.op \in {"construct", "insert"}
    /\ Len(PendingInserts) < MaxPending
    /\ urn' = insert(urn, w, a)
    /\ hist' = Call("insert", urn,
                    [w |-> w, a |-> a, pending |-> PendingInserts, base |-> hist.arg.base],
                    urn')
    /\ UNCHANGED overflow_checks

LifoUninsert ==
    /\ Len(PendingInserts) > 0
    /\ LET res == uninsert(urn)
       IN /\ urn' = res.urn
          /\ hist' = Call("uninsert", urn,
                          [pending |-> PendingInserts, base |-> hist.arg.base], res)
    /\ UNCHANGED overflow_checks

NextLifo ==
    \/ \E p \in LifoPairs : LifoInsert(p[1], p[2])
    \/ LifoUninsert

SpecLifo == InitLifo /\ [][NextLifo]_vars

(***************************************************************************)
(* reverse_bits as a function of its input: Init draws n and x, the        *)
(* actions apply reverse_bits once and then to its own result.             *)
(***************************************************************************)
MaxBits == 5

InitBits ==
    /\ urn = None
    /\ \E n \in 0..MaxBits, x \in 0..(2 ^ (MaxBits + 1) - 1) :
          hist = Call("input", None, [n |-> n, x |-> x], None)
    /\ overflow_checks \in BOOLEAN

ReverseBits ==
    /\ hist.op = "input"
    /\ hist' = Call("reverse_bits", None, hist.arg,
                    [value |-> reverse_bits(hist.arg.n, hist.arg.x)])
    /\ UNCHANGED <<urn, overflow_checks>>

ReverseBitsAgain ==
    /\ hist.op = "reverse_bits"
    /\ hist' = Call("reverse_bits_twice", None, hist.arg,
                    [value |-> reverse_bits(hist.arg.n, hist.ret.value)])
    /\ UNCHANGED <<urn, overflow_checks>>

NextBits == ReverseBits \/ ReverseBitsAgain

SpecBits == InitBits /\ [][NextBits]_vars

(***************************************************************************)
(* Notions the properties are stated with.                                 *)
(***************************************************************************)
\* The (weight, value) pairs at the leaves, left to right.
RECURSIVE Leaves(_)
Leaves(t) == IF t.tag = "Leaf" THEN <<<<t.w, t.a>>>> ELSE Leaves(t.l) \o Leaves(t.r)

\* The tree without its weights and values.
RECURSIVE Shape(_)
Shape(t) == IF t.tag = "Leaf" THEN <<>> ELSE <<Shape(t.l), Shape(t.r)>>

\* The sum of the weights of the first k pairs, as an integer.
RECURSIVE PrefixSum(_, _)
PrefixSum(ps, k) == IF k = 0 THEN 0 ELSE PrefixSum(ps, k - 1) + ps[k][1]

TrueSum(t) == PrefixSum(Leaves(t), Len(Leaves(t)))

NoOverflow(t) == TrueSum(t) <= WeightMax

\* I1: every node's weight is the sum, in the Weight type, of the weights of
\* the leaves below it.
RECURSIVE I1(_)
I1(t) ==
    IF t.tag = "Leaf" THEN TRUE
    ELSE t.w = TrueSum(t) % Modulus /\ I1(t.l) /\ I1(t.r)

\* I2: size is the number of leaves.
I2(u) == u.size = Len(Leaves(u.tree))

WellFormed(u) == I1(u.tree) /\ I2(u)

\* The position of the leaf whose bucket [lb, lb + w) contains i.
BucketOf(ps, i) ==
    CHOOSE k \in 1..Len(ps) : PrefixSum(ps, k - 1) <= i /\ i < PrefixSum(ps, k)

\* The position of the leaf the descent of section 4.1 ends in: left if i is
\* below the left subtree's weight, otherwise right with i less that weight.
RECURSIVE Addressed(_, _)
Addressed(t, i) ==
    IF t.tag = "Leaf" THEN 1
    ELSE IF i < t.l.w THEN Addressed(t.l, i)
         ELSE Len(Leaves(t.l)) + Addressed(t.r, i - t.l.w)

\* The position of the leaf the path (lowest bit first, 0 left, 1 right)
\* ends in.
RECURSIVE PathLeaf(_, _)
PathLeaf(path, t) ==
    IF t.tag = "Leaf" THEN 1
    ELSE IF path % 2 = 1 THEN Len(Leaves(t.l)) + PathLeaf(path \div 2, t.r)
         ELSE PathLeaf(path \div 2, t.l)

\* The shape that singleton followed by n - 1 inserts produces.
InsertShape(n) == Shape(from_list_naive([k \in 1..n |-> <<1, "b">>]).tree)

\* Figure 5 of the paper, the tree of the unit test sample_example.
Fig5Tree ==
    Node(21,
         Node(9, Node(5, Leaf(4, "a"), Leaf(1, "b")), Node(4, Leaf(2, "c"), Leaf(2, "d"))),
         Node(12, Node(7, Leaf(2, "e"), Leaf(5, "f")), Node(5, Leaf(3, "g"), Leaf(2, "h"))))

Randomized == {"sample", "update", "replace", "remove"}

(***************************************************************************)
(* Properties.                                                             *)
(***************************************************************************)

\* C1: every urn reached from a constructor by insert, uninsert,
\* replace_index / replace and remove_index / remove (and update), with any
\* weights and indexes, satisfies I1 (weights are the wrapped sums of the
\* leaves below) and I2 (size is the number of leaves).
C1_WellFormedInvariant == IsUrn(urn) => I1(urn.tree) /\ I2(urn)

\* C1 witness: a removal has left an urn whose leaf weights sum beyond the
\* u8 range.
C1_Witness ==
    /\ hist.op = "remove_index"
    /\ IsUrn(urn)
    /\ urn.size >= 2
    /\ ~NoOverflow(urn.tree)

\* C2: from_list returns None for the empty list and, for every non-empty
\* list of length n, a well-formed urn of size n.
C2_FromListTotal ==
    hist.op = "from_list" =>
        IF hist.arg.elems = <<>> THEN IsNone(hist.ret)
        ELSE /\ IsUrn(hist.ret)
             /\ hist.ret.size = Len(hist.arg.elems)
             /\ WellFormed(hist.ret)

\* C3: for every non-empty list, from_list and from_list_naive both return
\* urns, of equal size and equal root weight.
C3_BulkNaiveEquivalence ==
    (hist.op = "from_list" /\ hist.arg.elems # <<>>) =>
        LET naive == from_list_naive(hist.arg.elems)
        IN /\ IsUrn(hist.ret)
           /\ IsUrn(naive)
           /\ hist.ret.size = naive.size
           /\ weight(hist.ret.tree) = weight(naive.tree)

\* C4 as stated: for every well-formed urn u, uninsert(insert(u, w, a))
\* returns (w, a) and Some urn equal to u.
C4_InverseOnEveryWellFormedUrn ==
    (hist.op = "insert" /\ WellFormed(hist.pre)) =>
        LET res == uninsert(urn)
        IN res.pair = <<hist.arg.w, hist.arg.a>> /\ res.urn = hist.pre

\* C4 amended: for every well-formed urn u whose tree has the shape that
\* singleton followed by size - 1 inserts produces, uninsert(insert(u, w, a))
\* returns (w, a) and Some urn equal to u.
C4_InverseOnInsertShapedUrn ==
    (/\ hist.op = "insert"
     /\ WellFormed(hist.pre)
     /\ Shape(hist.pre.tree) = InsertShape(hist.pre.size)) =>
        LET res == uninsert(urn)
        IN res.pair = <<hist.arg.w, hist.arg.a>> /\ res.urn = hist.pre

\* C4 witness: an insert into an insert-shaped urn of three elements whose
\* weights wrap.
C4_Witness ==
    /\ hist.op = "insert"
    /\ hist.pre.size = 3
    /\ WellFormed(hist.pre)
    /\ Shape(hist.pre.tree) = InsertShape(3)
    /\ ~NoOverflow(urn.tree)

\* C5: remove_index(urn, i) on an urn of size >= 2 whose weights sum without
\* overflow, with 0 <= i < weight(urn), returns the pair of the leaf whose
\* bucket contains i, the element sample_index(i) selects.
C5_RemoveReturnsBucketOfIndex ==
    (/\ hist.op = "remove_index"
     /\ hist.pre.size >= 2
     /\ NoOverflow(hist.pre.tree)
     /\ hist.arg.i < weight(hist.pre.tree)) =>
        LET ps == Leaves(hist.pre.tree)
        IN /\ hist.ret.pair = ps[BucketOf(ps, hist.arg.i)]
           /\ hist.ret.pair[2] = sample_index(hist.pre.tree, hist.arg.i)

\* C6: the lowerBound uninsert returns is the sum of the weights of the
\* leaves strictly to the left of the removed leaf.
C6_UninsertLowerBound ==
    hist.op = "uninsert" =>
        LET ps == Leaves(hist.pre.tree)
            k == PathLeaf(hist.pre.size - 1, hist.pre.tree)
        IN hist.ret.lb = PrefixSum(ps, k - 1) % Modulus

\* C7: insert on size n gives size n + 1; uninsert and remove on size n > 1
\* give Some urn of size n - 1; on size 1 they give None and the sole pair;
\* None is given only when the prior size was 1.
C7_SizeDeltas ==
    /\ hist.op = "insert" => IsUrn(urn) /\ urn.size = hist.pre.size + 1
    /\ hist.op \in {"uninsert", "remove_index", "remove"} =>
          /\ urn = hist.ret.urn
          /\ IF hist.pre.size > 1
             THEN IsUrn(urn) /\ urn.size = hist.pre.size - 1
             ELSE /\ IsNone(urn)
                  /\ hist.ret.pair = <<hist.pre.tree.w, hist.pre.tree.a>>

\* C7 witness: a removal from an urn of size 1 has left no urn.
C7_Witness ==
    /\ hist.op = "remove"
    /\ hist.pre.size = 1
    /\ IsNone(urn)

\* C8: on a tree satisfying I1 without overflow and 0 <= i < weight(tree),
\* sample_index returns the value of the leaf whose bucket contains i and
\* leaves the tree unchanged; index 12 of the tree of figure 5 yields 'f'.
C8_SampleReturnsBucketOfIndex ==
    /\ (/\ hist.op = "sample_index"
        /\ I1(hist.pre.tree)
        /\ NoOverflow(hist.pre.tree)
        /\ hist.arg.i < weight(hist.pre.tree)) =>
          LET ps == Leaves(hist.pre.tree)
          IN /\ hist.ret.value = ps[BucketOf(ps, hist.arg.i)][2]
             /\ urn = hist.pre
    /\ sample_index(Fig5Tree, 12) = "f"

\* C8 witness: a sample of the middle leaf of a three-leaf tree, past a leaf
\* of positive weight.
C8_Witness ==
    /\ hist.op = "sample_index"
    /\ hist.pre.size = 3
    /\ NoOverflow(hist.pre.tree)
    /\ hist.arg.i < weight(hist.pre.tree)
    /\ hist.arg.i > 0
    /\ BucketOf(Leaves(hist.pre.tree), hist.arg.i) = 2

\* C9: replace_index and replace keep size and shape; the leaf addressed by
\* i (the leaf whose bucket contains i when the weights do not overflow and
\* i < weight) holds (w, a) afterwards, its previous pair is returned, every
\* other leaf is unchanged and the result is well-formed.
C9_ReplaceFrame ==
    hist.op \in {"replace_index", "replace"} =>
        LET ps == Leaves(hist.pre.tree)
            k == Addressed(hist.pre.tree, hist.arg.i)
        IN /\ urn = hist.ret.urn
           /\ urn.size = hist.pre.size
           /\ Shape(urn.tree) = Shape(hist.pre.tree)
           /\ Leaves(urn.tree) = [ps EXCEPT ![k] = <<hist.arg.w, hist.arg.a>>]
           /\ hist.ret.old = ps[k]
           /\ WellFormed(urn)
           /\ (NoOverflow(hist.pre.tree) /\ hist.arg.i < weight(hist.pre.tree))
                 => k = BucketOf(ps, hist.arg.i)

\* C9 witness: a replace of the middle leaf of a three-leaf urn by a
\* different pair.
C9_Witness ==
    /\ hist.op = "replace"
    /\ hist.pre.size = 3
    /\ Addressed(hist.pre.tree, hist.arg.i) = 2
    /\ hist.ret.old # <<hist.arg.w, hist.arg.a>>

\* C10: every randomized wrapper hands its index-based counterpart an index
\* i with 0 <= i < weight(urn).
C10_DrawnIndexBelowWeight ==
    hist.op \in Randomized =>
        0 <= hist.arg.i /\ hist.arg.i < weight(hist.pre.tree)


\* The depths of the leaves, left to right.
RECURSIVE LeafDepths(_, _)
LeafDepths(t, d) ==
    IF t.tag = "Leaf" THEN <<d>> ELSE LeafDepths(t.l, d + 1) \o LeafDepths(t.r, d + 1)

DepthSet(t) == {LeafDepths(t, 0)[k] : k \in 1..Len(LeafDepths(t, 0))}

\* floor(log2(n)), by comparison with the powers of two.
FloorLog2(n) == CHOOSE d \in 0..n : 2 ^ d <= n /\ n < 2 ^ (d + 1)

\* C11: after any sequence of insert, uninsert and remove_index (and the
\* shape-preserving replace_index and update_index) on an urn built by a
\* constructor, the depths of any two leaves differ by at most 1 and the
\* depth of the tree is at most floor(log2(size)) + 1.
C11_NearBalance ==
    IsUrn(urn) =>
        /\ \A d1, d2 \in DepthSet(urn.tree) : d1 - d2 <= 1
        /\ \A d \in DepthSet(urn.tree) : d <= FloorLog2(urn.size) + 1

\* C11 witness: a removal by index has left an urn of five elements, whose
\* leaves lie at two different depths.
C11_Witness ==
    /\ hist.op = "remove_index"
    /\ IsUrn(urn)
    /\ urn.size = 5
    /\ Cardinality(DepthSet(urn.tree)) = 2


\* The call ended in a panic instead of returning.
Aborted(ret) == "tag" \in DOMAIN ret /\ ret.tag = "Panic"

IndexBased == {"sample_index", "update_index", "replace_index", "remove_index"}

\* C12: sample_index, update_index, replace_index and remove_index called
\* with an index i >= weight abort instead of returning an element or a
\* modified tree.
C12_OutOfRangeIndexAborts ==
    (hist.op \in IndexBased /\ hist.arg.i >= weight(hist.pre.tree)) =>
        Aborted(hist.ret)


\* Bit k of x.
Bit(x, k) == (x \div (2 ^ k)) % 2

\* C13: bit k of reverse_bits(n, x) is bit n - 1 - k of x for k < n and 0 for
\* k >= n, whatever the bits of x above the lowest n; on [0, 2^n) the
\* function is its own inverse; the five examples of the unit test hold.
C13_ReverseBits ==
    /\ hist.op = "reverse_bits" =>
          /\ hist.ret.value < 2 ^ hist.arg.n
          /\ \A k \in 0..MaxBits :
                Bit(hist.ret.value, k) =
                    IF k < hist.arg.n THEN Bit(hist.arg.x, hist.arg.n - 1 - k) ELSE 0
    /\ (hist.op = "reverse_bits_twice" /\ hist.arg.x < 2 ^ hist.arg.n) =>
          hist.ret.value = hist.arg.x
    /\ reverse_bits(3, 14) = 3
    /\ reverse_bits(4, 12) = 3
    /\ reverse_bits(5, 3) = 24
    /\ reverse_bits(3, 0) = 0
    /\ reverse_bits(1, 1) = 1

\* C13 witness: three bits of a number with a higher bit set have been
\* reversed into a different number.
C13_Witness ==
    /\ hist.op = "reverse_bits"
    /\ hist.arg.n = 3
    /\ hist.arg.x >= 2 ^ 3
    /\ hist.ret.value # hist.arg.x % (2 ^ 3)


\* C14: insert, uninsert, replace_index, update_index, remove_index and the
\* bulk constructor all compute node weights modulo 256, and none of them
\* aborts on overflow.
C14_UniformWrapping ==
    /\ hist.ret # PanicOverflow
    /\ IsUrn(urn) => I1(urn.tree)


\* What the depth-first walk of almost_perfect returns for elems, overflow
\* of the weights aside: the tree, the input left over and the next position.
Walk(elems) ==
    LET d == ilog2(Len(elems))
    IN almost_perfect_go(d, 0, elems, d, ap_remainder(Len(elems), d), FALSE)

\* C15: for every non-empty input the walk of almost_perfect never reaches
\* the input-exhausted panic, leaves no input over, and the leaves of the
\* result, left to right, are the input pairs in input order.
C15_InputConsumedExactly ==
    (hist.op = "from_list" /\ hist.arg.elems # <<>>) =>
        /\ hist.ret # PanicExhausted
        /\ ~IsPanic(Walk(hist.arg.elems))
        /\ Walk(hist.arg.elems).elems = <<>>
        /\ Leaves(Walk(hist.arg.elems).tree) = hist.arg.elems
        /\ IsUrn(hist.ret) => Leaves(hist.ret.tree) = hist.arg.elems

\* The subtrees hanging at depth d, left to right (a leaf above depth d
\* counts as its own slot).
RECURSIVE SlotsAt(_, _)
SlotsAt(t, d) ==
    IF d = 0 \/ t.tag = "Leaf" THEN <<t>> ELSE SlotsAt(t.l, d - 1) \o SlotsAt(t.r, d - 1)

IsTwoLeaf(t) == t.tag = "Node" /\ t.l.tag = "Leaf" /\ t.r.tag = "Leaf"

\* C16: for an input of length n and d = floor(log2(n)), almost_perfect uses
\* remainder = n - 2^d; the tree has 2^d slots at depth d, the slot at
\* position p is a two-leaf subtree if reverse_bits(d, p) < remainder and a
\* single leaf otherwise, so every leaf is at depth d or d + 1.
C16_RemainderSlots ==
    (hist.op = "from_list" /\ hist.arg.elems # <<>>) =>
        LET n == Len(hist.arg.elems)
            d == FloorLog2(n)
            remainder == n - 2 ^ d
        IN /\ ilog2(n) = d
           /\ ap_remainder(n, ilog2(n)) = remainder
           /\ IsUrn(hist.ret) =>
                 LET slots == SlotsAt(hist.ret.tree, d)
                 IN /\ Len(slots) = 2 ^ d
                    /\ \A p \in 0..(2 ^ d - 1) :
                          IF reverse_bits(d, p) < remainder
                          THEN IsTwoLeaf(slots[p + 1])
                          ELSE slots[p + 1].tag = "Leaf"
                    /\ DepthSet(hist.ret.tree) \subseteq {d, d + 1}


\* C17: on a tree satisfying I1, including one whose leaf weights sum beyond
\* 255, update_index returns the old pair of the addressed leaf and the new
\* pair f(w, a), and a tree of the same shape in which that leaf holds the
\* new pair, every other leaf is unchanged and every ancestor's weight is
\* ancestorWeight - oldWeight + newWeight, so that I1 holds again.
C17_UpdateFrame ==
    (hist.op = "update_index" /\ I1(hist.pre.tree)) =>
        LET ps == Leaves(hist.pre.tree)
            k == Addressed(hist.pre.tree, hist.arg.i)
            new == apply_f(hist.arg.f, ps[k][1], ps[k][2])
        IN /\ ~Aborted(hist.ret)
           /\ hist.ret.old = ps[k]
           /\ hist.ret.new = new
           /\ urn = hist.ret.urn
           /\ Shape(urn.tree) = Shape(hist.pre.tree)
           /\ Leaves(urn.tree) = [ps EXCEPT ![k] = new]
           /\ weight(urn.tree) = (weight(hist.pre.tree) - ps[k][1] + new[1] + Modulus) % Modulus
           /\ I1(urn.tree)


\* The leaves of an urn, none for "no urn".
Content(u) == IF IsUrn(u) THEN Leaves(u.tree) ELSE <<>>

Count(ps, p) == Cardinality({k \in 1..Len(ps) : ps[k] = p})

Elements(ps) == {ps[k] : k \in 1..Len(ps)}

\* As multisets, more is less plus one occurrence of p.
OneMore(more, less, p) ==
    \A q \in Elements(more) \cup Elements(less) \cup {p} :
        Count(more, q) = Count(less, q) + (IF q = p THEN 1 ELSE 0)

\* C18: the multiset of leaves after insert(u, w, a) is that of u plus
\* (w, a); after uninsert(u) and after remove_index(u, i), for any i, it is
\* that of u minus the returned pair; the root weight changes by exactly the
\* inserted or returned weight, modulo 256.
C18_ContentConserved ==
    /\ hist.op = "insert" =>
          /\ OneMore(Content(urn), Content(hist.pre), <<hist.arg.w, hist.arg.a>>)
          /\ weight(urn.tree) = (weight(hist.pre.tree) + hist.arg.w) % Modulus
    /\ hist.op \in {"uninsert", "remove_index"} =>
          /\ OneMore(Content(hist.pre), Content(urn), hist.ret.pair)
          /\ IsUrn(urn) =>
                weight(urn.tree) =
                    (weight(hist.pre.tree) - hist.ret.pair[1] + Modulus) % Modulus

\* C18 witness: remove_index has returned an element other than the most
\* recently inserted one, out of an urn of three.
C18_Witness ==
    /\ hist.op = "remove_index"
    /\ hist.pre.size = 3
    /\ hist.ret.pair # uninsert(hist.pre).pair


\* C19: every urn reached from singleton or from_list by insert, uninsert,
\* remove_index, replace_index and update_index has the shape that
\* from_list_naive gives a list of its size; whenever from_list succeeds, its
\* shape is that of from_list_naive on the same list.
C19_ShapeIsFunctionOfSize ==
    /\ IsUrn(urn) => Shape(urn.tree) = InsertShape(urn.size)
    /\ (hist.op = "from_list" /\ IsUrn(hist.ret)) =>
          Shape(hist.ret.tree) = Shape(from_list_naive(hist.arg.elems).tree)

\* C19 witness: from_list has built an urn of six elements, a size at which
\* two of the four slots of the last full level hold two leaves.
C19_Witness ==
    /\ hist.op = "from_list"
    /\ IsUrn(urn)
    /\ urn.size = 6
    /\ Cardinality(DepthSet(urn.tree)) = 2


\* C20: after inserting (w1, a1), ..., (wk, ak) into an urn u built by a
\* constructor, each uninsert returns the most recent pair not yet
\* uninserted, so the k uninserts return the pairs in reverse insertion
\* order, and the urn left by the k-th uninsert is u.
C20_UninsertIsLifo ==
    hist.op = "uninsert" =>
        /\ hist.ret.pair = hist.arg.pending[Len(hist.arg.pending)]
        /\ Len(PendingInserts) = 0 => urn = hist.arg.base

\* C20 witness: the last of three uninserts after three inserts into an urn
\* of three elements, the inserted weights not all the same.
C20_Witness ==
    /\ hist.op = "uninsert"
    /\ Len(hist.arg.pending) = 1
    /\ hist.pre.size = 4
    /\ hist.arg.base.size = 3
    /\ weight(hist.arg.base.tree) # TrueSum(hist.arg.base.tree)

====
